---- MODULE Spec2Model ----
(***************************************************************************)
(* Time-tracking session manager and entry ledger of the AHP time tracker  *)
(* (src/src/app/page.tsx, src/src/lib/api.ts).                             *)
(*                                                                         *)
(* Timestamps are integer milliseconds since the epoch (Date.getTime()),   *)
(* calendar dates are UTC day numbers (the "YYYY-MM-DD" of toISOString()), *)
(* hours are counted in quarter hours (hoursWorked = 3 means 0.75 h), and  *)
(* a shift id "{date}_{technician}" is the pair [date, tech].              *)
(***************************************************************************)
EXTENDS Integers, Sequences, FiniteSets, TLC

VARIABLES
    now,               \* wall clock, ms since the epoch (new Date())
    technicians,       \* page.tsx:92, the roster once loaded
    tzOffset,          \* local time minus UTC, ms (the browser's time zone)
    currentUser,       \* page.tsx:93
    clockState,        \* page.tsx:94
    timeEntries,       \* page.tsx:98
    mileageEntries,    \* page.tsx:99
    weekTotalHours,    \* page.tsx:100
    showConfirmation,  \* page.tsx:104
    showError,         \* page.tsx:105
    isButtonDisabled,  \* page.tsx:106
    calls,             \* async handlers suspended at an await, with their closures
    timers,            \* pending setTimeout callbacks
    lastEvent,         \* history variable: the handler step taken last
    serverTotalLoaded, \* history variable: a history load was applied since startup/switchUser
    currentScreen,        \* page.tsx:101
    elapsedTime,          \* page.tsx:107
    mileageDate,          \* page.tsx:111
    mileageMiles,         \* page.tsx:112
    mileageDescription,   \* page.tsx:113
    isSubmittingMileage,  \* page.tsx:114
    intervals,            \* pending setInterval callbacks
    shownAt               \* history variable: when the visible notifications were shown

mileageVars == <<currentScreen, mileageDate, mileageMiles, mileageDescription,
                 isSubmittingMileage>>
progVars == <<currentUser, clockState, timeEntries, mileageEntries, weekTotalHours,
              showConfirmation, showError, isButtonDisabled, elapsedTime, mileageVars>>
envVars == <<now, tzOffset, technicians, calls, timers, intervals>>
vars == <<now, tzOffset, technicians, currentUser, clockState, timeEntries, mileageEntries,
          weekTotalHours, showConfirmation, showError, isButtonDisabled, calls, timers,
          lastEvent, serverTotalLoaded, currentScreen, elapsedTime, mileageDate,
          mileageMiles, mileageDescription, isSubmittingMileage, intervals, shownAt>>

----------------------------------------------------------------------------
(* Values *)

NULL == -1          \* null / undefined of a nullable number or timestamp
NONE == "none"      \* null / undefined of a nullable string
NoMsg == <<>>       \* null of a notification
NoElapsedTime == NULL   \* the "" the elapsed-time display starts with

HourMs == 1000 * 60 * 60
DayMs == 24 * HourMs
QuarterMs == HourMs \div 4
MinuteMs == 1000 * 60
DebounceMs == 2000
ConfirmMs == 3000
ErrorMs == 4000
TickerMs == 60000

Roster == <<"Bri">>   \* the technicians endpoint's roster

(* Bounds of the model *)
MaxSlots == 1        \* the wall clock runs over MaxSlots half-hour boundaries
MaxTapOffset == 0    \* user actions happen within this many ms after a half hour
MaxLoads == 1        \* loadUserData / refreshHistory calls suspended at any moment
MaxMileage == 2      \* mileage is submitted while the ledger holds fewer entries

\* Saturday 1970-01-03 23:30 UTC: half an hour before a UTC day and week boundary.
SlotMs == HourMs \div 2
Start0 == 2 * DayMs + 23 * HourMs + SlotMs
MaxNow == Start0 + MaxSlots * SlotMs
TZOffsets == {0}

Min(S) == CHOOSE x \in S : \A y \in S : x <= y

----------------------------------------------------------------------------
(* Helper functions of page.tsx *)

\* date.toISOString().split("T")[0]: the UTC calendar day of a timestamp
formatDate(t) == t \div DayMs

\* new Date(entry.date).getTime(): a date-only string parses as UTC midnight
ParseDate(d) == d * DayMs

\* Variant: halves are rounded down
calculateHoursWorkedHalfDown(clockIn, clockOut) ==
    (2 * (clockOut - clockIn) + QuarterMs - 1) \div (2 * QuarterMs)

\* Math.round(diffHours * 4) / 4, in quarter hours; Math.round rounds halves up
calculateHoursWorked(clockIn, clockOut) ==
    (2 * (clockOut - clockIn) + QuarterMs) \div (2 * QuarterMs)

\* startOfWeek: local midnight of the most recent local Sunday, as a UTC instant
StartOfWeek(t, off) ==
    LET localDay == (t + off) \div DayMs
        getDay == (localDay + 4) % 7      \* 1970-01-01 was a Thursday
    IN (localDay - getDay) * DayMs - off

RECURSIVE SumHours(_, _, _)
SumHours(entries, t, off) ==
    IF entries = <<>> THEN 0
    ELSE LET e == Head(entries)
             keep == ParseDate(e.date) >= StartOfWeek(t, off) /\ e.hoursWorked # NULL
         IN (IF keep THEN e.hoursWorked ELSE 0) + SumHours(Tail(entries), t, off)

getWeekTotal(entries) == SumHours(entries, now, tzOffset)

\* const weekTotal = weekTotalHours || getWeekTotal(timeEntries)
DisplayedWeekTotal ==
    IF weekTotalHours # 0 THEN weekTotalHours ELSE getWeekTotal(timeEntries)

\* The comparators of the views (page.tsx:498, 501, 611)
byDate(order, a, b) ==
    IF order = "descending" THEN ParseDate(b.date) - ParseDate(a.date)
    ELSE ParseDate(a.date) - ParseDate(b.date)

\* Array.prototype.sort with one of these comparators: a stable sort, so an
\* element goes behind every element that does not have to come after it
InsertSorted(sorted, e, order) ==
    LET before == {i \in DOMAIN sorted : \A j \in 1..i : byDate(order, sorted[j], e) <= 0}
        k == Cardinality(before)
    IN SubSeq(sorted, 1, k) \o <<e>> \o SubSeq(sorted, k + 1, Len(sorted))
RECURSIVE sort(_, _)
sort(entries, order) ==
    IF entries = <<>> THEN <<>>
    ELSE InsertSorted(sort(SubSeq(entries, 1, Len(entries) - 1), order),
                      entries[Len(entries)], order)

\* Variant: the history screen sorts a copy, the array in the state stays as it is
RenderCopied(screen, entries) == entries

\* What rendering a screen leaves in the array held by the state: the history
\* screen calls .sort on the state's own array (page.tsx:497-501), which sorts
\* it in place; the home screen sorts the copy .filter returned (page.tsx:602-611)
Render(screen, entries) ==
    IF screen = "history" THEN sort(entries, "descending") ELSE entries

\* thisWeekEntries of the home screen (page.tsx:602-611)
thisWeekEntries ==
    sort(SelectSeq(timeEntries,
                   LAMBDA e : ParseDate(e.date) >= StartOfWeek(now, tzOffset)),
         "ascending")

----------------------------------------------------------------------------
(* Records *)

OUT == [isClockedIn |-> FALSE, clockInTime |-> NULL]

SynthShiftId(date, tech) == [date |-> date, tech |-> tech]   \* `${date}_${tech}`
ServerShiftId == [date |-> NULL, tech |-> "S1"]              \* an id of another form
NoShiftId == [date |-> NULL, tech |-> NONE]

Call(id, kind, user, t, prev, hrs, phase) ==
    [id |-> id, kind |-> kind, user |-> user, now |-> t,
     prevClockInTime |-> prev, hoursWorked |-> hrs, phase |-> phase]
NoCall == Call(NULL, NONE, NONE, NULL, NULL, NULL, NONE)

Timer(kind, due) == [kind |-> kind, due |-> due]

FreeIds == (1..MaxLoads) \ {c.id : c \in calls}
ClockCalls == {c \in calls : c.kind \in {"clockIn", "clockOut"}}

Event(op, c, srv) == [op |-> op, call |-> c, srv |-> srv]

\* The names on the buttons of the selection screen (page.tsx:401)
TechnicianNames == {technicians[i] : i \in DOMAIN technicians}

\* Screen, mileage form, elapsed-time display and ticker after construction
InitScreenAndForm ==
    /\ currentScreen = "home"
    /\ elapsedTime = NoElapsedTime
    /\ mileageDate = formatDate(now)
    /\ mileageMiles = ""
    /\ mileageDescription = ""
    /\ isSubmittingMileage = FALSE
    /\ intervals = {}
    /\ shownAt = [confirm |-> NULL, error |-> NULL]

Init ==
    /\ now = Start0
    /\ tzOffset \in TZOffsets
    /\ technicians = Roster
    /\ currentUser = NONE
    /\ clockState = OUT
    /\ timeEntries = <<>>
    /\ mileageEntries = <<>>
    /\ weekTotalHours = 0
    /\ showConfirmation = NoMsg
    /\ showError = NoMsg
    /\ isButtonDisabled = FALSE
    /\ calls = {}
    /\ timers = {}
    /\ lastEvent = Event("init", NoCall, NONE)
    /\ serverTotalLoaded = FALSE
    /\ InitScreenAndForm

\* User actions are drawn from the first MaxTapOffset ms after each half hour.
UserMayAct == (now - Start0) % SlotMs <= MaxTapOffset

\* selectUser, and the effect on [currentUser] that starts loadUserData
SelectUser(name) ==
    /\ currentUser = NONE
    /\ UserMayAct
    /\ FreeIds # {}
    /\ currentUser' = name
    /\ calls' = calls \cup {Call(Min(FreeIds), "load", name, NULL, NULL, NULL, "status")}
    /\ lastEvent' = Event("selectUser", NoCall, NONE)
    /\ UNCHANGED <<now, tzOffset, technicians, clockState, timeEntries, mileageEntries, weekTotalHours,
                   showConfirmation, showError, isButtonDisabled, timers, serverTotalLoaded>>

\* switchUser (page.tsx:201-208)
SwitchUser ==
    /\ currentUser # NONE
    /\ currentScreen = "home"
    /\ UserMayAct
    /\ currentUser' = NONE
    /\ clockState' = OUT
    /\ timeEntries' = <<>>
    /\ mileageEntries' = <<>>
    /\ weekTotalHours' = 0
    /\ serverTotalLoaded' = FALSE
    /\ lastEvent' = Event("switchUser", NoCall, NONE)
    /\ UNCHANGED <<now, tzOffset, technicians, showConfirmation, showError, isButtonDisabled, calls, timers>>

----------------------------------------------------------------------------
(* The remote endpoints (external): what a call can come back with *)

Body(kind, success, shift, hrs, err) ==
    [kind |-> kind, success |-> success, shift_id |-> shift, hours_worked |-> hrs,
     error |-> err]
Accepted == Body("Accepted", FALSE, NoShiftId, NULL, NONE)    \* the text "Accepted"
EmptyBody == Body("empty", FALSE, NoShiftId, NULL, NONE)      \* ""
TextBody == Body("text", FALSE, NoShiftId, NULL, NONE)        \* text that is no JSON
Json(success, shift, hrs, err) == Body("json", success, shift, hrs, err)

Http(transport, status, body) == [transport |-> transport, status |-> status, body |-> body]
TransportFailure == Http(FALSE, 0, EmptyBody)                 \* fetch() rejects
ServerError == Http(TRUE, 500, TextBody)

\* What the endpoint itself returned: the shift_id / hours_worked of a JSON body
ReturnedShiftId(http) ==
    IF http.transport /\ http.body.kind = "json" THEN http.body.shift_id ELSE NoShiftId
ReturnedHours(http) ==
    IF http.transport /\ http.body.kind = "json" THEN http.body.hours_worked ELSE NULL

ServerHours == {5}      \* hours_worked of the clock-out endpoint: 1.25 h
ServerRefusal == "Server says no"

ClockInBodies ==
    {Accepted, EmptyBody, TextBody,
     Json(TRUE, NoShiftId, NULL, NONE),
     Json(TRUE, ServerShiftId, NULL, NONE),
     Json(FALSE, NoShiftId, NULL, ServerRefusal)}
ClockOutBodies ==
    {Accepted, EmptyBody, TextBody,
     Json(TRUE, NoShiftId, NULL, NONE),
     Json(FALSE, NoShiftId, NULL, ServerRefusal)}
    \cup {Json(TRUE, NoShiftId, h, NONE) : h \in ServerHours}
SuccessStatuses == {200, 201}
ClockInHttp ==
    {TransportFailure, ServerError}
    \cup {Http(TRUE, s, b) : s \in SuccessStatuses, b \in ClockInBodies}
ClockOutHttp ==
    {TransportFailure, ServerError}
    \cup {Http(TRUE, s, b) : s \in SuccessStatuses, b \in ClockOutBodies}

\* The mileage endpoint's JSON body carries entry_id
MileageJson(success, entry, err) ==
    [kind |-> "json", success |-> success, entry_id |-> entry, error |-> err]
ServerEntryId == <<"srv", 2>>        \* an entry_id the mileage endpoint issues
NoEntryId == <<>>                    \* entry_id absent
MileageBodies ==
    {Accepted, EmptyBody, TextBody,
     MileageJson(TRUE, NoEntryId, NONE),
     MileageJson(TRUE, ServerEntryId, NONE),
     MileageJson(FALSE, NoEntryId, ServerRefusal),
     MileageJson(FALSE, NoEntryId, NONE)}
MileageHttp ==
    {TransportFailure, ServerError}
    \cup {Http(TRUE, s, b) : s \in SuccessStatuses, b \in MileageBodies}

----------------------------------------------------------------------------
(* api.ts *)

ConnectError == "Failed to connect. Please try again."
ClockResponse(success, shift, hrs, err) ==
    [success |-> success, shift_id |-> shift, hours_worked |-> hrs, error |-> err]

ResponseOk(http) == http.status >= 200 /\ http.status <= 299
\* Variant: only the body decides, a 200 with another body is parsed
TreatedAsAcceptedByText(http) ==
    http.body.kind = "Accepted" \/ http.body.kind = "empty"

\* text === "Accepted" || text === "" || response.status === 200
TreatedAsAccepted(http) ==
    http.body.kind = "Accepted" \/ http.body.kind = "empty" \/ http.status = 200

\* clockIn(techName); t is the time the response is read (new Date() at api.ts:102)
apiClockIn(http, techName, t) ==
    IF ~http.transport \/ ~ResponseOk(http)
    THEN ClockResponse(FALSE, NoShiftId, NULL, ConnectError)
    ELSE IF TreatedAsAccepted(http)
    THEN ClockResponse(TRUE, SynthShiftId(formatDate(t), techName), NULL, NONE)
    ELSE IF http.body.kind = "json"
    THEN ClockResponse(http.body.success, http.body.shift_id, http.body.hours_worked,
                       http.body.error)
    ELSE ClockResponse(TRUE, NoShiftId, NULL, NONE)

\* clockOut(techName)
apiClockOut(http) ==
    IF ~http.transport \/ ~ResponseOk(http)
    THEN ClockResponse(FALSE, NoShiftId, NULL, ConnectError)
    ELSE IF TreatedAsAccepted(http)
    THEN ClockResponse(TRUE, NoShiftId, NULL, NONE)
    ELSE IF http.body.kind = "json"
    THEN ClockResponse(http.body.success, http.body.shift_id, http.body.hours_worked,
                       http.body.error)
    ELSE ClockResponse(TRUE, NoShiftId, NULL, NONE)

\* submitMileage(techName, date, miles, description); t is the time the response
\* is read (Date.now() at api.ts:206)
MileageResponse(success, entry, err) ==
    [success |-> success, entry_id |-> entry, error |-> err]
SynthEntryId(t) == <<"mileage", t>>                          \* `mileage_${Date.now()}`
apiSubmitMileage(http, t) ==
    IF ~http.transport \/ ~ResponseOk(http)
    THEN MileageResponse(FALSE, NoEntryId, ConnectError)
    ELSE IF TreatedAsAccepted(http)
    THEN MileageResponse(TRUE, SynthEntryId(t), NONE)
    ELSE IF http.body.kind = "json"
    THEN MileageResponse(http.body.success, http.body.entry_id, http.body.error)
    ELSE MileageResponse(TRUE, NoEntryId, NONE)

\* editEntry(techName, shiftId, field, oldValue, newValue, reason)
EditResponse(success, err) == [success |-> success, error |-> err]
apiEditEntry(http) ==
    IF ~http.transport \/ ~ResponseOk(http)
    THEN EditResponse(FALSE, ConnectError)
    ELSE IF TreatedAsAccepted(http)
    THEN EditResponse(TRUE, NONE)
    ELSE IF http.body.kind = "json"
    THEN EditResponse(http.body.success, http.body.error)
    ELSE EditResponse(TRUE, NONE)

\* fetchTechnicians(): data.technicians || data || [], or the fallback roster when
\* the call fails (api.ts:73, 77)
FallbackTechnicians == <<"Bri", "Nick">>
TechniciansBody(wrapped, list) == [wrapped |-> wrapped, list |-> list]
\* Variant: a failed call yields no roster
fetchTechniciansNoFallback(ok, body) == IF ok THEN body.list ELSE <<>>
fetchTechnicians(ok, body) == IF ok THEN body.list ELSE FallbackTechnicians
\* The endpoint answers {technicians: [...]} or the bare array
TechniciansBodies == {TechniciansBody(TRUE, Roster), TechniciansBody(FALSE, Roster)}

\* checkStatus(techName): the JSON body, or {clocked_in: false} when the call fails
StatusBody(clocked_in, clock_in_time) ==
    [clocked_in |-> clocked_in, clock_in_time |-> clock_in_time]
checkStatus(ok, body) == IF ok THEN body ELSE StatusBody(FALSE, NULL)

\* fetchHistory(techName): the JSON body, or the empty history when the call fails
HistoryBody(time_entries, mileage_entries, week_total_hours) ==
    [time_entries |-> time_entries, mileage_entries |-> mileage_entries,
     week_total_hours |-> week_total_hours]
fetchHistory(ok, body) == IF ok THEN body ELSE HistoryBody(<<>>, <<>>, 0)

\* What the status and history endpoints hold
ServerClockInTime == Start0 - HourMs
StatusBodies ==
    {StatusBody(FALSE, NULL), StatusBody(TRUE, NULL), StatusBody(TRUE, ServerClockInTime)}
ServerTimeEntry(user) ==
    [shiftId |-> SynthShiftId(formatDate(Start0), user), date |-> formatDate(Start0),
     clockIn |-> Start0 - 3 * HourMs, clockOut |-> Start0 - HourMs, hoursWorked |-> 8]
ServerMileageEntry ==
    [entryId |-> <<"srv", 1>>, date |-> formatDate(Start0), miles |-> 120,
     description |-> "Site visit"]
\* The open entry of the shift the status endpoint reports
ServerOpenEntry(user) ==
    [shiftId |-> SynthShiftId(formatDate(Start0), user), date |-> formatDate(Start0),
     clockIn |-> ServerClockInTime, clockOut |-> NULL, hoursWorked |-> NULL]
\* The third history counts its week from another day than the client does:
\* it holds this Saturday's entry and reports a week total of 0. The fourth
\* holds the shift that is still open.
HistoryBodies(user) ==
    {HistoryBody(<<>>, <<>>, 0),
     HistoryBody(<<ServerTimeEntry(user)>>, <<ServerMileageEntry>>, 8),
     HistoryBody(<<ServerTimeEntry(user)>>, <<ServerMileageEntry>>, 0),
     HistoryBody(<<ServerOpenEntry(user)>>, <<>>, 0)}
\* What a history call came back with: fetch() outcome and JSON body
HistoryOutcome(ok, body) == [ok |-> ok, body |-> body]

----------------------------------------------------------------------------
(* loadUserData and refreshHistory *)

\* Variant: trusts clocked_in without looking at clock_in_time
StatusClockStateUnchecked(status) ==
    IF status.clocked_in
    THEN [isClockedIn |-> TRUE, clockInTime |-> status.clock_in_time]
    ELSE OUT

\* page.tsx:143-154
StatusClockState(status) ==
    IF status.clocked_in /\ status.clock_in_time # NULL
    THEN [isClockedIn |-> TRUE, clockInTime |-> status.clock_in_time]
    ELSE OUT

\* What a status call came back with: the JSON body, or the call failed
StatusOutcome(ok) == IF ok THEN NONE ELSE "failed"

\* loadUserData resumes after `await checkStatus` and issues fetchHistory
StatusResponse(c, ok, body) ==
    /\ c \in calls /\ c.kind = "load" /\ c.phase = "status"
    /\ clockState' = StatusClockState(checkStatus(ok, body))
    /\ calls' = (calls \ {c}) \cup {[c EXCEPT !.phase = "history"]}
    /\ lastEvent' = Event("statusLoaded", c, StatusOutcome(ok))
    /\ UNCHANGED <<now, tzOffset, technicians, currentUser, timeEntries, mileageEntries, weekTotalHours,
                   showConfirmation, showError, isButtonDisabled, timers, serverTotalLoaded>>

\* Variant: the loaded entries are merged in front of the local ones
LoadedEntriesMerged(prev, loaded) == loaded \o prev

\* setTimeEntries(timeEntriesLocal), setMileageEntries(mileageEntriesLocal)
\* (page.tsx:175-176, 371-372): the state is set to the loaded list
LoadedEntries(prev, loaded) == loaded

\* loadUserData / refreshHistory resume after `await fetchHistory`
HistoryResponse(c, ok, body) ==
    /\ c \in calls
    /\ \/ c.kind = "load" /\ c.phase = "history"
       \/ c.kind = "refresh"
    /\ LET history == fetchHistory(ok, body)
       IN /\ timeEntries' =
                Render(currentScreen, LoadedEntries(timeEntries, history.time_entries))
          /\ mileageEntries' =
                Render(currentScreen,
                       LoadedEntries(mileageEntries, history.mileage_entries))
          /\ weekTotalHours' = history.week_total_hours
    /\ calls' = calls \ {c}
    /\ serverTotalLoaded' = TRUE
    /\ lastEvent' = Event("historyLoaded", c, HistoryOutcome(ok, body))
    /\ UNCHANGED <<now, tzOffset, technicians, currentUser, clockState, showConfirmation, showError,
                   isButtonDisabled, timers>>

\* refreshHistory (page.tsx:352-354)
RefreshHistory ==
    /\ currentUser # NONE
    /\ currentScreen = "history"
    /\ UserMayAct
    /\ FreeIds # {}
    /\ calls' = calls \cup {Call(Min(FreeIds), "refresh", currentUser, NULL, NULL, NULL, NONE)}
    /\ lastEvent' = Event("refreshHistory", NoCall, NONE)
    /\ UNCHANGED <<now, tzOffset, technicians, currentUser, clockState, timeEntries, mileageEntries,
                   weekTotalHours, showConfirmation, showError, isButtonDisabled, timers,
                   serverTotalLoaded>>

----------------------------------------------------------------------------
(* The main action button and the clock handlers *)

\* Variant: the button always starts a clock-in
ButtonHandlerAlwaysIn == "clockIn"

\* onClick={clockState.isClockedIn ? handleClockOut : handleClockIn} (page.tsx:668)
ButtonHandler == IF clockState.isClockedIn THEN "clockOut" ELSE "clockIn"

\* Variant: the guard forgets the debounce flag
ClockGuardNoDebounce == currentUser = NONE

\* if (isButtonDisabled || !currentUser) return;  (page.tsx:212, 256)
ClockGuard == isButtonDisabled \/ currentUser = NONE

\* Variant: the handler does not set the debounce flag
ButtonDisabledAtStartUnset == FALSE

\* setIsButtonDisabled(true)  (page.tsx:213, 257)
ButtonDisabledAtStart == TRUE

\* Variant: the re-enable timer is scheduled at call start
TimersAtStartEarly(t) == {Timer("button", t + DebounceMs)}

\* Timers a clock handler schedules before its await: none (page.tsx:213-227, 257-276)
TimersAtStart(t) == {}

\* Variant: no re-enable timer is scheduled
TimersAtEndNone(t) == {}

\* setTimeout(() => setIsButtonDisabled(false), 2000) after the await (page.tsx:251, 308)
TimersAtEnd(t) == {Timer("button", t + DebounceMs)}

\* The handler returns at its guard: nothing is set, called or scheduled.
Ignored(op) ==
    /\ lastEvent' = Event(op, NoCall, NONE)
    /\ UNCHANGED <<now, tzOffset, technicians, currentUser, clockState, timeEntries, mileageEntries,
                   weekTotalHours, showConfirmation, showError, isButtonDisabled, calls,
                   timers, serverTotalLoaded>>

\* handleClockIn up to `await clockIn(currentUser)` (page.tsx:211-227)
ClockInOptimistic(t) == [isClockedIn |-> TRUE, clockInTime |-> t]
handleClockIn ==
    IF ClockGuard THEN Ignored("clockInIgnored")
    ELSE /\ isButtonDisabled' = ButtonDisabledAtStart
         /\ clockState' = ClockInOptimistic(now)
         /\ showConfirmation' = <<"Clocked in at", now>>
         /\ LET c == Call(0, "clockIn", currentUser, now, NULL, NULL, NONE)
            IN /\ calls' = calls \cup {c}
               /\ lastEvent' = Event("clockInStart", c, NONE)
         /\ timers' = timers \cup TimersAtStart(now)
         /\ UNCHANGED <<now, tzOffset, technicians, currentUser, timeEntries, mileageEntries,
                        weekTotalHours, showError, serverTotalLoaded>>

\* handleClockOut up to `await clockOut(currentUser)` (page.tsx:255-276)
handleClockOut ==
    IF ClockGuard THEN Ignored("clockOutIgnored")
    ELSE /\ isButtonDisabled' = ButtonDisabledAtStart
         /\ LET prevClockInTime == clockState.clockInTime
                hoursWorked == IF prevClockInTime # NULL
                               THEN calculateHoursWorked(prevClockInTime, now)
                               ELSE 0
                c == Call(0, "clockOut", currentUser, now, prevClockInTime,
                          hoursWorked, NONE)
            IN /\ clockState' = OUT
               /\ showConfirmation' = <<"Clocked out. You worked", hoursWorked>>
               /\ calls' = calls \cup {c}
               /\ lastEvent' = Event("clockOutStart", c, NONE)
         /\ timers' = timers \cup TimersAtStart(now)
         /\ UNCHANGED <<now, tzOffset, technicians, currentUser, timeEntries, mileageEntries,
                        weekTotalHours, showError, serverTotalLoaded>>

\* A tap on the main action button of the home screen
TapClockButton ==
    /\ currentUser # NONE
    /\ currentScreen = "home"
    /\ UserMayAct
    /\ IF ButtonHandler = "clockOut" THEN handleClockOut ELSE handleClockIn

\* response.error || fallback
ErrorText(response, fallback) == IF response.error # NONE THEN response.error ELSE fallback

\* Variant: the failure branch keeps the optimistic session
ClockInRevertKept == clockState

\* page.tsx:231-234
ClockInRevert == OUT

\* page.tsx:240-246
NewEntry(c, response) ==
    [shiftId |-> IF response.shift_id # NoShiftId THEN response.shift_id
                 ELSE SynthShiftId(formatDate(c.now), c.user),
     date |-> formatDate(c.now),
     clockIn |-> c.now,
     clockOut |-> NULL,
     hoursWorked |-> NULL]

\* [newEntry, ...prev.filter(e => e.shiftId !== newEntry.shiftId)]  (page.tsx:247)
InsertEntry(prev, newEntry) ==
    <<newEntry>> \o SelectSeq(prev, LAMBDA e : e.shiftId # newEntry.shiftId)

\* handleClockIn after the await (page.tsx:229-251)
ClockInResponse(c, http) ==
    /\ c \in calls /\ c.kind = "clockIn"
    /\ LET response == apiClockIn(http, c.user, now)
       IN IF ~response.success
          THEN /\ clockState' = ClockInRevert
               /\ showConfirmation' = NoMsg
               /\ showError' = <<ErrorText(response, "Failed to clock in")>>
               /\ timers' = timers \cup {Timer("error", now + ErrorMs)} \cup TimersAtEnd(now)
               /\ lastEvent' = Event("clockInFailed", c, ReturnedShiftId(http))
               /\ UNCHANGED timeEntries
          ELSE /\ timeEntries' =
                      Render(currentScreen, InsertEntry(timeEntries, NewEntry(c, response)))
               /\ timers' = timers \cup {Timer("confirm", now + ConfirmMs)}
                                   \cup TimersAtEnd(now)
               /\ lastEvent' = Event("clockInDone", c, ReturnedShiftId(http))
               /\ UNCHANGED <<clockState, showConfirmation, showError>>
    /\ calls' = calls \ {c}
    /\ UNCHANGED <<now, tzOffset, technicians, currentUser, mileageEntries, weekTotalHours,
                   isButtonDisabled, serverTotalLoaded>>

\* Variant: the rollback restores the clock-out time instead of the captured one
ClockOutRevertToNow(c) == [isClockedIn |-> TRUE, clockInTime |-> c.now]

\* page.tsx:280-283
ClockOutRevert(c) == [isClockedIn |-> TRUE, clockInTime |-> c.prevClockInTime]

\* response.hours_worked ?? hoursWorked  (page.tsx:289)
ActualHours(c, response) ==
    IF response.hours_worked # NULL THEN response.hours_worked ELSE c.hoursWorked

\* findIndex(entry => entry.date === formatDate(now) && entry.clockOut === null)
RECURSIVE FindOpen(_, _, _)
FindOpen(entries, date, i) ==
    IF i > Len(entries) THEN 0
    ELSE IF entries[i].date = date /\ entries[i].clockOut = NULL THEN i
    ELSE FindOpen(entries, date, i + 1)

\* Variant: a clock-out that finds no open entry of today records the shift
CloseEntryCreating(prev, c, actualHours) ==
    LET todayIndex == FindOpen(prev, formatDate(c.now), 1)
    IN IF todayIndex # 0
       THEN [prev EXCEPT ![todayIndex] =
                [@ EXCEPT !.clockOut = c.now, !.hoursWorked = actualHours]]
       ELSE <<[shiftId |-> SynthShiftId(formatDate(c.now), c.user),
               date |-> formatDate(c.now), clockIn |-> c.prevClockInTime,
               clockOut |-> c.now, hoursWorked |-> actualHours]>> \o prev

\* the updater of setTimeEntries (page.tsx:290-303)
CloseEntry(prev, c, actualHours) ==
    LET todayIndex == FindOpen(prev, formatDate(c.now), 1)
    IN IF todayIndex # 0
       THEN [prev EXCEPT ![todayIndex] =
                [@ EXCEPT !.clockOut = c.now, !.hoursWorked = actualHours]]
       ELSE prev

\* handleClockOut after the await (page.tsx:278-308)
ClockOutResponse(c, http) ==
    /\ c \in calls /\ c.kind = "clockOut"
    /\ LET response == apiClockOut(http)
       IN IF ~response.success
          THEN /\ clockState' = ClockOutRevert(c)
               /\ showConfirmation' = NoMsg
               /\ showError' = <<ErrorText(response, "Failed to clock out")>>
               /\ timers' = timers \cup {Timer("error", now + ErrorMs)} \cup TimersAtEnd(now)
               /\ lastEvent' = Event("clockOutFailed", c, ReturnedHours(http))
               /\ UNCHANGED <<timeEntries, weekTotalHours>>
          ELSE /\ timeEntries' =
                      Render(currentScreen,
                             CloseEntry(timeEntries, c, ActualHours(c, response)))
               /\ weekTotalHours' = weekTotalHours + ActualHours(c, response)
               /\ timers' = timers \cup {Timer("confirm", now + ConfirmMs)}
                                   \cup TimersAtEnd(now)
               /\ lastEvent' = Event("clockOutDone", c, ReturnedHours(http))
               /\ UNCHANGED <<clockState, showConfirmation, showError>>
    /\ calls' = calls \ {c}
    /\ UNCHANGED <<now, tzOffset, technicians, currentUser, mileageEntries, isButtonDisabled,
                   serverTotalLoaded>>

----------------------------------------------------------------------------
(* Screens and the mileage form *)

\* setCurrentScreen(screen) from the home, mileage and history screens
\* (page.tsx:435, 508, 681, 690), and the render of the screen entered
GoTo(screen) ==
    /\ currentUser # NONE
    /\ UserMayAct
    /\ \/ currentScreen = "home" /\ screen \in {"mileage", "history"}
       \/ currentScreen \in {"mileage", "history"} /\ screen = "home"
    /\ currentScreen' = screen
    /\ timeEntries' = Render(screen, timeEntries)
    /\ mileageEntries' = Render(screen, mileageEntries)
    /\ lastEvent' = Event("goTo", NoCall, screen)
    /\ UNCHANGED <<now, tzOffset, technicians, currentUser, clockState, weekTotalHours,
                   showConfirmation, showError, isButtonDisabled, calls, timers,
                   serverTotalLoaded, mileageDate, mileageMiles, mileageDescription,
                   isSubmittingMileage>>

\* What the technician types into the form; miles are counted in tenths of a mile
MilesInputs == {"12.5"}
DescriptionInputs == {"Site visit"}
NaN == -2
parseFloat(text) == IF text = "12.5" THEN 125 ELSE NaN

\* onChange of the three inputs of the mileage form (page.tsx:451, 464, 476)
FillMileageForm(date, miles, description) ==
    /\ currentUser # NONE
    /\ currentScreen = "mileage"
    /\ UserMayAct
    /\ <<mileageDate, mileageMiles, mileageDescription>> # <<date, miles, description>>
    /\ mileageDate' = date
    /\ mileageMiles' = miles
    /\ mileageDescription' = description
    /\ lastEvent' = Event("fillMileageForm", NoCall, NONE)
    /\ UNCHANGED <<now, tzOffset, technicians, currentUser, clockState, timeEntries,
                   mileageEntries, weekTotalHours, showConfirmation, showError,
                   isButtonDisabled, calls, timers, serverTotalLoaded, currentScreen,
                   isSubmittingMileage>>

MileageCall(user, date, miles, description) ==
    [id |-> 0, kind |-> "mileage", user |-> user, mileageDate |-> date,
     mileageMiles |-> miles, mileageDescription |-> description]

\* if (!currentUser || isSubmittingMileage) return;  (page.tsx:314)
MileageGuard == currentUser = NONE \/ isSubmittingMileage

\* handleMileageSubmit up to `await submitMileage(...)` (page.tsx:312-323); the
\* form's inputs are `required`, so an incomplete form is never submitted
handleMileageSubmit ==
    /\ currentUser # NONE
    /\ currentScreen = "mileage"
    /\ UserMayAct
    /\ mileageMiles # "" /\ mileageDescription # ""
    /\ Len(mileageEntries) < MaxMileage
    /\ IF MileageGuard
       THEN /\ lastEvent' = Event("mileageIgnored", NoCall, NONE)
            /\ UNCHANGED <<calls, isSubmittingMileage>>
       ELSE LET c == MileageCall(currentUser, mileageDate, mileageMiles,
                                 mileageDescription)
            IN /\ isSubmittingMileage' = TRUE
               /\ calls' = calls \cup {c}
               /\ lastEvent' = Event("mileageStart", c, NONE)
    /\ UNCHANGED <<now, tzOffset, technicians, currentUser, clockState, timeEntries,
                   mileageEntries, weekTotalHours, showConfirmation, showError,
                   isButtonDisabled, timers, serverTotalLoaded, currentScreen,
                   mileageDate, mileageMiles, mileageDescription>>

\* What the mileage endpoint itself returned: the entry_id of a JSON body
ReturnedEntryId(http) ==
    IF http.transport /\ http.body.kind = "json" THEN http.body.entry_id ELSE NoEntryId

\* page.tsx:327-332; t is Date.now() when the response is handled
NewMileageEntry(c, response, t) ==
    [entryId |-> IF response.entry_id # NoEntryId THEN response.entry_id ELSE SynthEntryId(t),
     date |-> c.mileageDate,
     miles |-> parseFloat(c.mileageMiles),
     description |-> c.mileageDescription]

\* Variant: the new entry is appended
InsertMileageEntryAtEnd(prev, newEntry) == prev \o <<newEntry>>

\* [newEntry, ...prev]  (page.tsx:333)
InsertMileageEntry(prev, newEntry) == <<newEntry>> \o prev

\* Variant: the failure branch leaves the submitting flag set
SubmittingAfterFailureKept == TRUE

\* setIsSubmittingMileage(false) (page.tsx:348)
SubmittingAfterFailure == FALSE

\* handleMileageSubmit after the await (page.tsx:325-348)
MileageSubmitResponse(c, http) ==
    /\ c \in calls /\ c.kind = "mileage"
    /\ LET response == apiSubmitMileage(http, now)
       IN IF response.success
          THEN /\ mileageEntries' =
                      InsertMileageEntry(mileageEntries, NewMileageEntry(c, response, now))
               /\ mileageDate' = formatDate(now)
               /\ mileageMiles' = ""
               /\ mileageDescription' = ""
               /\ currentScreen' = "home"
               /\ showConfirmation' = <<"Mileage entry saved">>
               /\ timers' = timers \cup {Timer("confirm", now + ConfirmMs)}
               /\ isSubmittingMileage' = FALSE
               /\ lastEvent' = Event("mileageDone", c, ReturnedEntryId(http))
               /\ UNCHANGED showError
          ELSE /\ showError' = <<ErrorText(response, "Failed to save mileage")>>
               /\ timers' = timers \cup {Timer("error", now + ErrorMs)}
               /\ isSubmittingMileage' = SubmittingAfterFailure
               /\ lastEvent' = Event("mileageFailed", c, http)
               /\ UNCHANGED <<mileageEntries, mileageDate, mileageMiles,
                              mileageDescription, currentScreen, showConfirmation>>
    /\ calls' = calls \ {c}
    /\ UNCHANGED <<now, tzOffset, technicians, currentUser, clockState, timeEntries,
                   weekTotalHours, isButtonDisabled, serverTotalLoaded>>

----------------------------------------------------------------------------
(* The elapsed-time display and its ticker *)

\* getElapsedTime: "{h}h {m}m" or "{m}m", here the whole minutes elapsed
getElapsedTime(clockInTime, t) == (t - clockInTime) \div MinuteMs

Interval(clockInTime, start, lastRun) ==
    [clockInTime |-> clockInTime, start |-> start, lastRun |-> lastRun]

\* if (clockState.isClockedIn && clockState.clockInTime)  (page.tsx:185)
Ticking(session) == session.isClockedIn /\ session.clockInTime # NULL

\* Variant: the effect returns no cleanup
IntervalsAfterCleanupKept == intervals

\* return () => clearInterval(interval)  (page.tsx:190)
IntervalsAfterCleanup == {}

\* The effect on [clockState.isClockedIn, clockState.clockInTime], run by React
\* after a step that changed one of them (page.tsx:184-192), and loadUserData's
\* own setElapsedTime (page.tsx:148)
ElapsedEffect ==
    LET rerun == clockState' # clockState
        started == IF Ticking(clockState')
                   THEN {Interval(clockState'.clockInTime, now', now')}
                   ELSE {}
    IN /\ intervals' = IF rerun THEN IntervalsAfterCleanup \cup started ELSE intervals
       /\ elapsedTime' =
             IF (rerun \/ lastEvent'.op = "statusLoaded") /\ Ticking(clockState')
             THEN getElapsedTime(clockState'.clockInTime, now')
             ELSE elapsedTime

\* History: the moment the notification now visible was shown
ShowsConfirmation(op) == op \in {"clockInStart", "clockOutStart", "mileageDone"}
ShowsError(op) == op \in {"clockInFailed", "clockOutFailed", "mileageFailed"}
NotificationClock ==
    shownAt' =
        [confirm |-> IF showConfirmation' = NoMsg THEN NULL
                     ELSE IF ShowsConfirmation(lastEvent'.op) THEN now'
                     ELSE shownAt.confirm,
         error |-> IF showError' = NoMsg THEN NULL
                   ELSE IF ShowsError(lastEvent'.op) THEN now'
                   ELSE shownAt.error]

AfterStep == ElapsedEffect /\ NotificationClock
NoMileage == UNCHANGED mileageVars

\* The setInterval callback (page.tsx:187-189), at the instants the clock stops
IntervalDue(i) == now > i.lastRun /\ (now - i.start) % TickerMs = 0
IntervalFire(i) ==
    /\ i \in intervals /\ IntervalDue(i)
    /\ elapsedTime' = getElapsedTime(i.clockInTime, now)
    /\ intervals' = (intervals \ {i}) \cup {[i EXCEPT !.lastRun = now]}
    /\ lastEvent' = Event("interval", NoCall, NONE)
    /\ UNCHANGED <<now, tzOffset, technicians, currentUser, clockState, timeEntries,
                   mileageEntries, weekTotalHours, showConfirmation, showError,
                   isButtonDisabled, calls, timers, serverTotalLoaded>>

----------------------------------------------------------------------------
(* Timers and the wall clock *)

\* A setTimeout callback runs when it is due.
TimerFire(t) ==
    /\ t \in timers /\ t.due <= now
    /\ timers' = timers \ {t}
    /\ isButtonDisabled' = IF t.kind = "button" THEN FALSE ELSE isButtonDisabled
    /\ showConfirmation' = IF t.kind = "confirm" THEN NoMsg ELSE showConfirmation
    /\ showError' = IF t.kind = "error" THEN NoMsg ELSE showError
    /\ lastEvent' = Event("timer", NoCall, t.kind)
    /\ UNCHANGED <<now, tzOffset, technicians, currentUser, clockState, timeEntries, mileageEntries,
                   weekTotalHours, calls, serverTotalLoaded>>

\* Time passes up to the next pending timer or the next half hour.
NextSlot == Start0 + ((now - Start0) \div SlotMs + 1) * SlotMs
Tick ==
    /\ \A t \in timers : t.due > now
    /\ \A i \in intervals : ~IntervalDue(i)
    /\ LET target == Min({t.due : t \in timers} \cup {NextSlot})
       IN /\ target <= MaxNow \/ target < NextSlot
          /\ now' = target
    /\ lastEvent' = Event("tick", NoCall, NONE)
    /\ UNCHANGED <<tzOffset, technicians, currentUser, clockState, timeEntries, mileageEntries,
                   weekTotalHours, showConfirmation, showError, isButtonDisabled, calls,
                   timers, serverTotalLoaded>>

Next ==
    \/ TapClockButton /\ NoMileage /\ AfterStep
    \/ \E c \in calls, http \in ClockInHttp :
          ClockInResponse(c, http) /\ NoMileage /\ AfterStep
    \/ \E c \in calls, http \in ClockOutHttp :
          ClockOutResponse(c, http) /\ NoMileage /\ AfterStep
    \/ \E t \in timers : TimerFire(t) /\ NoMileage /\ AfterStep
    \/ Tick /\ NoMileage /\ AfterStep
    \/ \E name \in TechnicianNames : SelectUser(name) /\ NoMileage /\ AfterStep
    \/ SwitchUser /\ NoMileage /\ AfterStep
    \/ \E c \in calls, ok \in BOOLEAN, body \in StatusBodies :
          StatusResponse(c, ok, body) /\ NoMileage /\ AfterStep
    \/ \E c \in calls, ok \in BOOLEAN : \E body \in HistoryBodies(c.user) :
          HistoryResponse(c, ok, body) /\ NoMileage /\ AfterStep
    \/ RefreshHistory /\ NoMileage /\ AfterStep
    \/ \E screen \in {"home", "history"} : GoTo(screen) /\ AfterStep
    \/ \E i \in intervals : IntervalFire(i) /\ NoMileage /\ NotificationClock

\* The session, the time ledger and the history screen: every handler but those
\* of the mileage screen
Spec == Init /\ [][Next]_vars

\* The mileage screen and its form, with the loads and the user switch around
\* it; without the clock button and the history screen
MileageNext ==
    \/ \E miles \in MilesInputs, description \in DescriptionInputs :
          FillMileageForm(mileageDate, miles, description) /\ AfterStep
    \/ handleMileageSubmit /\ AfterStep
    \/ \E c \in calls, http \in MileageHttp : MileageSubmitResponse(c, http) /\ AfterStep
    \/ \E screen \in {"home", "mileage"} : GoTo(screen) /\ AfterStep
    \/ \E t \in timers : TimerFire(t) /\ NoMileage /\ AfterStep
    \/ Tick /\ NoMileage /\ AfterStep
    \/ \E name \in TechnicianNames : SelectUser(name) /\ NoMileage /\ AfterStep
    \/ SwitchUser /\ NoMileage /\ AfterStep
    \/ \E c \in calls, ok \in BOOLEAN, body \in StatusBodies :
          StatusResponse(c, ok, body) /\ NoMileage /\ AfterStep
    \/ \E c \in calls, ok \in BOOLEAN : \E body \in HistoryBodies(c.user) :
          HistoryResponse(c, ok, body) /\ NoMileage /\ AfterStep
    \/ \E i \in intervals : IntervalFire(i) /\ NoMileage /\ NotificationClock

MileageSpec == Init /\ [][MileageNext]_vars

----------------------------------------------------------------------------
(* The views: the history endpoint lists its rows oldest first *)

ServerOlderTimeEntry(user) ==
    [shiftId |-> SynthShiftId(formatDate(Start0) - 1, user), date |-> formatDate(Start0) - 1,
     clockIn |-> Start0 - DayMs - 3 * HourMs, clockOut |-> Start0 - DayMs - HourMs,
     hoursWorked |-> 8]
ServerOlderMileageEntry ==
    [entryId |-> <<"srv", 0>>, date |-> formatDate(Start0) - 1, miles |-> 80,
     description |-> "Delivery"]
ViewHistoryBodies(user) ==
    {HistoryBody(<<>>, <<>>, 0),
     HistoryBody(<<ServerTimeEntry(user)>>, <<ServerMileageEntry>>, 8),
     HistoryBody(<<ServerOlderTimeEntry(user), ServerTimeEntry(user)>>,
                 <<ServerOlderMileageEntry, ServerMileageEntry>>, 16)}
ViewClockHttp == {TransportFailure, Http(TRUE, 200, Accepted)}

ViewNext ==
    \/ \E screen \in {"home", "history"} : GoTo(screen) /\ AfterStep
    \/ RefreshHistory /\ NoMileage /\ AfterStep
    \/ \E name \in TechnicianNames : SelectUser(name) /\ NoMileage /\ AfterStep
    \/ SwitchUser /\ NoMileage /\ AfterStep
    \/ \E c \in calls, ok \in BOOLEAN, body \in StatusBodies :
          StatusResponse(c, ok, body) /\ NoMileage /\ AfterStep
    \/ \E c \in calls, ok \in BOOLEAN : \E body \in ViewHistoryBodies(c.user) :
          HistoryResponse(c, ok, body) /\ NoMileage /\ AfterStep
    \/ TapClockButton /\ NoMileage /\ AfterStep
    \/ \E c \in calls, http \in ViewClockHttp :
          ClockInResponse(c, http) /\ NoMileage /\ AfterStep
    \/ \E c \in calls, http \in ViewClockHttp :
          ClockOutResponse(c, http) /\ NoMileage /\ AfterStep
    \/ \E t \in timers : TimerFire(t) /\ NoMileage /\ AfterStep
    \/ Tick /\ NoMileage /\ AfterStep
    \/ \E i \in intervals : IntervalFire(i) /\ NoMileage /\ NotificationClock

\* The home and history screens over a history the endpoint lists oldest first
ViewSpec == Init /\ [][ViewNext]_vars

----------------------------------------------------------------------------
(* The reads: the roster load on mount, the status check and the history load *)

TechniciansCall == Call(0, "technicians", NONE, NULL, NULL, NULL, NONE)

\* loadTechnicians resumes after `await fetchTechnicians()` (page.tsx:118-123)
TechniciansResponse(c, ok, body) ==
    /\ c \in calls /\ c.kind = "technicians"
    /\ technicians' = fetchTechnicians(ok, body)
    /\ calls' = calls \ {c}
    /\ lastEvent' = Event("techniciansLoaded", c, StatusOutcome(ok))
    /\ UNCHANGED <<now, tzOffset, currentUser, clockState, timeEntries, mileageEntries,
                   weekTotalHours, showConfirmation, showError, isButtonDisabled, timers,
                   serverTotalLoaded>>

\* The state after construction and the mount effect: no roster yet, and
\* loadTechnicians suspended at its await (page.tsx:92, 117-125)
ReadInit ==
    /\ now = Start0
    /\ tzOffset \in TZOffsets
    /\ technicians = <<>>
    /\ currentUser = NONE
    /\ clockState = OUT
    /\ timeEntries = <<>>
    /\ mileageEntries = <<>>
    /\ weekTotalHours = 0
    /\ showConfirmation = NoMsg
    /\ showError = NoMsg
    /\ isButtonDisabled = FALSE
    /\ calls = {TechniciansCall}
    /\ timers = {}
    /\ lastEvent = Event("init", NoCall, NONE)
    /\ serverTotalLoaded = FALSE
    /\ InitScreenAndForm

ReadNext ==
    \/ \E c \in calls, ok \in BOOLEAN, body \in TechniciansBodies :
          TechniciansResponse(c, ok, body) /\ NoMileage /\ AfterStep
    \/ \E name \in TechnicianNames : SelectUser(name) /\ NoMileage /\ AfterStep
    \/ SwitchUser /\ NoMileage /\ AfterStep
    \/ \E c \in calls, ok \in BOOLEAN, body \in StatusBodies :
          StatusResponse(c, ok, body) /\ NoMileage /\ AfterStep
    \/ \E c \in calls, ok \in BOOLEAN : \E body \in HistoryBodies(c.user) :
          HistoryResponse(c, ok, body) /\ NoMileage /\ AfterStep
    \/ RefreshHistory /\ NoMileage /\ AfterStep
    \/ \E screen \in {"home", "history"} : GoTo(screen) /\ AfterStep
    \/ Tick /\ NoMileage /\ AfterStep
    \/ \E i \in intervals : IntervalFire(i) /\ NoMileage /\ NotificationClock

\* The app from its mount on, with the roster load in flight: the reads and
\* the screens, without the clock button
ReadSpec == ReadInit /\ [][ReadNext]_vars

----------------------------------------------------------------------------
(* Progress: every remote call resolves, due callbacks run, time passes *)

LiveClockHttp == {TransportFailure, Http(TRUE, 200, Accepted)}
LiveMileageHttp == {ServerError, Http(TRUE, 200, Accepted)}
LiveStatusBodies == {StatusBody(FALSE, NULL)}
LiveHistoryBodies == {HistoryBody(<<>>, <<>>, 0)}

LiveResponse ==
    \/ \E c \in calls, http \in LiveClockHttp :
          ClockInResponse(c, http) /\ NoMileage /\ AfterStep
    \/ \E c \in calls, http \in LiveClockHttp :
          ClockOutResponse(c, http) /\ NoMileage /\ AfterStep
    \/ \E c \in calls, http \in LiveMileageHttp :
          MileageSubmitResponse(c, http) /\ AfterStep
    \/ \E c \in calls, body \in LiveStatusBodies :
          StatusResponse(c, TRUE, body) /\ NoMileage /\ AfterStep
    \/ \E c \in calls, body \in LiveHistoryBodies :
          HistoryResponse(c, TRUE, body) /\ NoMileage /\ AfterStep
LiveCallback ==
    \/ \E t \in timers : TimerFire(t) /\ NoMileage /\ AfterStep
    \/ \E i \in intervals : IntervalFire(i) /\ NoMileage /\ NotificationClock
LiveTick == Tick /\ NoMileage /\ AfterStep
LiveUser ==
    \/ \E name \in TechnicianNames : SelectUser(name) /\ NoMileage /\ AfterStep
    \/ TapClockButton /\ NoMileage /\ AfterStep
    \/ \E screen \in {"home", "mileage"} : GoTo(screen) /\ AfterStep
    \/ \E miles \in MilesInputs, description \in DescriptionInputs :
          FillMileageForm(mileageDate, miles, description) /\ AfterStep
    \/ handleMileageSubmit /\ AfterStep

LiveNext == LiveUser \/ LiveResponse \/ LiveCallback \/ LiveTick

\* The technician acts or not; every call in flight comes back, a callback
\* that is due runs, and the clock goes on.
LiveSpec ==
    /\ Init /\ [][LiveNext]_vars
    /\ WF_vars(LiveResponse) /\ WF_vars(LiveCallback) /\ WF_vars(LiveTick)

----------------------------------------------------------------------------
(* The helper functions and the POST wrappers applied to drawn inputs *)

MaxLedger == 2          \* entries of a ledger handed to getWeekTotal
MaxHalfQuarters == 20   \* shift lengths run up to this many half quarter hours

\* 1970-01-04 was a Sunday: a Sunday just after UTC midnight, a Monday noon and
\* the following Saturday late evening.
FnNows == {3 * DayMs + SlotMs, 4 * DayMs + 12 * HourMs, 9 * DayMs + 23 * HourMs}
FnOffsets == {0 - 5 * HourMs, 0, 2 * HourMs}     \* UTC-5, UTC, UTC+2
FnDates == {2, 3, 4}                             \* Saturday, Sunday, Monday
FnHours == {NULL, 10, 16}                        \* null, 2.5 h, 4.0 h
FnEntry(date, hrs) ==
    [shiftId |-> SynthShiftId(date, "Bri"), date |-> date, clockIn |-> ParseDate(date),
     clockOut |-> IF hrs = NULL THEN NULL ELSE ParseDate(date) + hrs * QuarterMs,
     hoursWorked |-> hrs]
FnEntries == {FnEntry(d, h) : d \in FnDates, h \in FnHours}
FnLedgers == UNION {[1..n -> FnEntries] : n \in 0..MaxLedger}

\* Shift lengths at, just below and just above every half quarter hour
FnLengths ==
    {d \in {k * (QuarterMs \div 2) + e : k \in 0..MaxHalfQuarters, e \in {0 - 1, 0, 1}} :
        d > 0}
FnClockIns == {Start0 - HourMs, Start0}

FnStatuses == {200, 201, 204, 301, 404, 500}
FnWrappers == {"clockIn", "clockOut", "submitMileage", "editEntry"}
FnBodies(wrapper) ==
    IF wrapper = "clockIn" THEN ClockInBodies
    ELSE IF wrapper = "submitMileage" THEN MileageBodies
    ELSE ClockOutBodies
FnHttp(wrapper) ==
    {TransportFailure} \cup {Http(TRUE, st, b) : st \in FnStatuses, b \in FnBodies(wrapper)}
FnCall(wrapper, http) ==
    IF wrapper = "clockIn" THEN apiClockIn(http, "Bri", now)
    ELSE IF wrapper = "clockOut" THEN apiClockOut(http)
    ELSE IF wrapper = "submitMileage" THEN apiSubmitMileage(http, now)
    ELSE apiEditEntry(http)

FnInit ==
    /\ now \in FnNows
    /\ tzOffset \in FnOffsets
    /\ technicians = Roster
    /\ currentUser = NONE
    /\ clockState = OUT
    /\ timeEntries = <<>>
    /\ mileageEntries = <<>>
    /\ weekTotalHours = 0
    /\ showConfirmation = NoMsg
    /\ showError = NoMsg
    /\ isButtonDisabled = FALSE
    /\ calls = {}
    /\ timers = {}
    /\ lastEvent = Event("init", NoCall, NONE)
    /\ serverTotalLoaded = FALSE
    /\ InitScreenAndForm

\* Each behaviour applies one function to one input.
FnResult(op, input, result) ==
    /\ lastEvent.op = "init"
    /\ lastEvent' = Event(op, NoCall, [input |-> input, result |-> result])
    /\ UNCHANGED <<now, tzOffset, technicians, currentUser, clockState, timeEntries,
                   mileageEntries, weekTotalHours, showConfirmation, showError,
                   isButtonDisabled, calls, timers, serverTotalLoaded, mileageVars,
                   elapsedTime, intervals, shownAt>>

EvalGetWeekTotal(entries) ==
    FnResult("getWeekTotal", entries, getWeekTotal(entries))
EvalCalculateHoursWorked(clockIn, clockOut) ==
    FnResult("calculateHoursWorked", <<clockIn, clockOut>>,
             calculateHoursWorked(clockIn, clockOut))
EvalWrapper(wrapper, http) ==
    FnResult("wrapper", <<wrapper, http>>, FnCall(wrapper, http))

FnNext ==
    \/ \E entries \in FnLedgers : EvalGetWeekTotal(entries)
    \/ \E a \in FnClockIns, d \in FnLengths : EvalCalculateHoursWorked(a, a + d)
    \/ \E w \in FnWrappers : \E http \in FnHttp(w) : EvalWrapper(w, http)

FnSpec == FnInit /\ [][FnNext]_vars

----------------------------------------------------------------------------
(* Properties *)

LastCall == lastEvent.call
ClockInStarted == lastEvent.op = "clockInStart"
ClockInFailed == lastEvent.op = "clockInFailed"
ClockInDone == lastEvent.op = "clockInDone"
ClockOutStarted == lastEvent.op = "clockOutStart"
ClockOutFailed == lastEvent.op = "clockOutFailed"
ClockOutDone == lastEvent.op = "clockOutDone"
TapIgnored == lastEvent.op \in {"clockInIgnored", "clockOutIgnored"}
Positions(entries, P(_)) == {i \in DOMAIN entries : P(entries[i])}

\* C1: in every reachable state clockInTime is non-null if and only if
\* isClockedIn is true.
C1_ClockInTimeIffClockedIn ==
    (clockState.clockInTime # NULL) <=> clockState.isClockedIn

\* C1 witness: a failed clock-out has rolled the session back to IN with the
\* captured clock-in time.
C1_Witness ==
    /\ ClockOutFailed
    /\ clockState.isClockedIn
    /\ clockState.clockInTime = LastCall.prevClockInTime

\* C2: the step that starts a clock-in leaves the session optimistically IN at
\* the tap time and adds no entry; the step that handles its failed response
\* leaves the session {isClockedIn: false, clockInTime: null} and the ledger
\* as it was.
C2_ClockInFailureReverts ==
    [][/\ ClockInStarted' =>
            /\ ~clockState.isClockedIn
            /\ clockState' = [isClockedIn |-> TRUE, clockInTime |-> now]
            /\ timeEntries' = timeEntries
       /\ ClockInFailed' =>
            /\ clockState' = [isClockedIn |-> FALSE, clockInTime |-> NULL]
            /\ timeEntries' = timeEntries]_vars

\* C2 witness: a clock-in has failed while the ledger held an entry.
C2_Witness ==
    /\ ClockInFailed
    /\ clockState = OUT
    /\ Len(timeEntries) > 0

\* C3: a clock-out is started from IN with the session's clock-in time t
\* captured, and the step that handles its failed response leaves the session
\* exactly {isClockedIn: true, clockInTime: t} and the ledger and the week
\* total unchanged.
C3_ClockOutFailureRestores ==
    [][/\ ClockOutStarted' =>
            /\ clockState.isClockedIn
            /\ LastCall'.prevClockInTime = clockState.clockInTime
            /\ LastCall'.prevClockInTime # NULL
       /\ ClockOutFailed' =>
            /\ clockState' = [isClockedIn |-> TRUE,
                              clockInTime |-> LastCall'.prevClockInTime]
            /\ timeEntries' = timeEntries
            /\ weekTotalHours' = weekTotalHours]_vars

\* C3 witness: a clock-out has failed later than it was started, with an entry
\* in the ledger.
C3_Witness ==
    /\ ClockOutFailed
    /\ now > LastCall.now
    /\ clockState.clockInTime < LastCall.now
    /\ Len(timeEntries) > 0

\* C4 (as claimed): when a clock-out succeeds and the head of the ledger is the
\* open entry of this shift (created by the clock-in, same day), that entry
\* gets a non-null clockOut and hoursWorked equal to the hours_worked the
\* endpoint returned if it returned one, else the client-computed value.
C4_ServerHoursPreferred ==
    [][(/\ ClockOutDone'
        /\ timeEntries # <<>>
        /\ Head(timeEntries).clockIn = LastCall'.prevClockInTime
        /\ Head(timeEntries).clockOut = NULL
        /\ Head(timeEntries).date = formatDate(LastCall'.now))
       => /\ Head(timeEntries').clockOut # NULL
          /\ Head(timeEntries').hoursWorked =
                IF lastEvent'.srv # NULL THEN lastEvent'.srv
                ELSE LastCall'.hoursWorked]_vars

\* C5 (as claimed): after a successful clock-in the ledger holds exactly one
\* entry with the shift id of this clock-in (the endpoint's shift_id if it
\* returned one, else {date}_{technician}), at the head, open, with clockIn
\* equal to the optimistic clock-in time.
C5_ShiftId ==
    IF lastEvent.srv # NoShiftId THEN lastEvent.srv
    ELSE SynthShiftId(formatDate(LastCall.now), LastCall.user)
C5_ServerShiftIdAdopted ==
    ClockInDone =>
        /\ Cardinality(Positions(timeEntries, LAMBDA e : e.shiftId = C5_ShiftId)) = 1
        /\ Head(timeEntries).shiftId = C5_ShiftId
        /\ Head(timeEntries).clockOut = NULL
        /\ Head(timeEntries).hoursWorked = NULL
        /\ Head(timeEntries).clockIn = LastCall.now

\* C6 (as claimed): no step of clockIn or clockOut removes an entry: every
\* entry of the ledger is still there afterwards, at most with clockOut and
\* hoursWorked filled in.
C6_Kept(e, f) ==
    /\ f.shiftId = e.shiftId /\ f.date = e.date /\ f.clockIn = e.clockIn
    /\ e.clockOut # NULL => (f.clockOut = e.clockOut /\ f.hoursWorked = e.hoursWorked)
C6_NoEntryDeleted ==
    [][(ClockInStarted' \/ ClockInFailed' \/ ClockInDone' \/ ClockOutStarted'
            \/ ClockOutFailed' \/ ClockOutDone')
       => \A i \in DOMAIN timeEntries :
             \E j \in DOMAIN timeEntries' : C6_Kept(timeEntries[i], timeEntries'[j])]_vars

\* C7: a clock handler invoked while isButtonDisabled is set changes nothing:
\* no state, no remote call, no timer, hence nothing that could act later.
C7_TapWhileDisabledIgnored ==
    [][((ClockInStarted' \/ ClockOutStarted' \/ TapIgnored') /\ isButtonDisabled)
       => /\ TapIgnored'
          /\ UNCHANGED progVars
          /\ UNCHANGED <<calls, timers>>]_vars

\* C7 witness: the button was tapped while the flag was set and a call in flight.
C7_Witness ==
    /\ TapIgnored
    /\ isButtonDisabled
    /\ ClockCalls # {}

C9_ButtonMatchesSession ==
    [][/\ ClockInStarted' => ~clockState.isClockedIn
       /\ ClockOutStarted' => clockState.isClockedIn]_vars

\* C9 witness: a clock-out started from a session the status load set to IN.
C9_Witness ==
    /\ ClockOutStarted
    /\ LastCall.prevClockInTime = ServerClockInTime

\* C10 (as claimed): while no history load has supplied a server total, the
\* displayed week total is the sum of hoursWorked over the ledger's entries of
\* the current week whose hoursWorked is non-null.
C10_SundayDate == ((now + tzOffset) \div DayMs) - ((((now + tzOffset) \div DayMs) + 4) % 7)
RECURSIVE C10_LedgerSum(_)
C10_LedgerSum(entries) ==
    IF entries = <<>> THEN 0
    ELSE (IF Head(entries).date >= C10_SundayDate /\ Head(entries).hoursWorked # NULL
          THEN Head(entries).hoursWorked ELSE 0) + C10_LedgerSum(Tail(entries))
C10_WeekTotalFromLedger ==
    ~serverTotalLoaded => DisplayedWeekTotal = C10_LedgerSum(timeEntries)

HistoryLoaded == lastEvent.op = "historyLoaded"

\* C11 (as claimed): right after a history load that the server answered, the
\* displayed week total equals the response's week_total_hours, also when that
\* value is 0 and the returned entries sum to more for the current week.
C11_ServerTotalDisplayed ==
    (HistoryLoaded /\ lastEvent.srv.ok)
        => DisplayedWeekTotal = lastEvent.srv.body.week_total_hours

FnInput == lastEvent.srv.input
FnOutput == lastEvent.srv.result

\* C12 (as claimed): for every local UTC offset getWeekTotal(entries) is the
\* sum of hoursWorked over the entries dated on or after the most recent local
\* Sunday whose hoursWorked is non-null; an entry dated that Sunday counts.
C12_WeekTotalFromSunday ==
    lastEvent.op = "getWeekTotal" => FnOutput = C10_LedgerSum(FnInput)

\* C13: for a < b, calculateHoursWorked(a, b) is (b - a) in quarter hours
\* rounded to the nearest whole number, halves up: a whole number q >= 0 of
\* quarter hours with q - 1/2 <= (b - a)/15min < q + 1/2; below 7.5 minutes it
\* is 0 and at exactly 7.5 minutes it is one quarter hour.
C13_QuarterHourRounding ==
    lastEvent.op = "calculateHoursWorked" =>
        LET d == FnInput[2] - FnInput[1]
            q == FnOutput
        IN /\ q \in Nat
           /\ 2 * q * QuarterMs <= 2 * d + QuarterMs
           /\ 2 * d + QuarterMs < 2 * (q + 1) * QuarterMs
           /\ d < 450000 => q = 0
           /\ d = 450000 => q = 1

\* C13 witness: a shift of exactly 7.5 minutes came out as one quarter hour.
C13_Witness ==
    /\ lastEvent.op = "calculateHoursWorked"
    /\ FnInput[2] - FnInput[1] = 450000
    /\ FnOutput = 1

WrapperCalled == lastEvent.op = "wrapper"
WrapperHttp == FnInput[2]

\* C16 (as claimed): a POST wrapper's result has success = false exactly when
\* the transport failed or the status was not 2xx.
C16_FailureOnlyOnTransportOrStatus ==
    WrapperCalled =>
        (~FnOutput.success <=> (~WrapperHttp.transport \/ ~ResponseOk(WrapperHttp)))

\* C16 (amended): a POST wrapper's result has success = false exactly when the
\* transport failed, the status was not 2xx, or the status was a 2xx other
\* than 200 and the body was JSON saying success: false, which the wrapper
\* returns as parsed. "Accepted", an empty body, any 200 and unparseable text
\* give success = true.
C16_FailureAlsoOnParsedRefusal ==
    WrapperCalled =>
        (~FnOutput.success <=>
            \/ ~WrapperHttp.transport
            \/ ~ResponseOk(WrapperHttp)
            \/ /\ WrapperHttp.status # 200
               /\ WrapperHttp.body.kind = "json"
               /\ ~WrapperHttp.body.success)

\* C16 witness: a 201 whose JSON body says success: false came back as a
\* failure carrying the body's error message.
C16_Witness ==
    /\ WrapperCalled
    /\ WrapperHttp.status = 201
    /\ WrapperHttp.body.kind = "json"
    /\ ~WrapperHttp.body.success
    /\ ~FnOutput.success
    /\ FnOutput.error = ServerRefusal

MileageDone == lastEvent.op = "mileageDone"
MileageFailed == lastEvent.op = "mileageFailed"

\* C14 (as claimed): the step that handles a successful mileage submission
\* puts exactly one new entry at the head of the mileage ledger, with the
\* submitted date and description, the parsed miles ("12.5" is 12.5) and the
\* entry_id the endpoint issued, or mileage_{epoch_ms} when it issued none;
\* the entries already there follow it unchanged and in order.
C14_ServerEntryIdAdopted ==
    [][MileageDone' =>
          /\ Tail(mileageEntries') = mileageEntries
          /\ Head(mileageEntries') =
                [entryId |-> IF lastEvent'.srv # NoEntryId THEN lastEvent'.srv
                             ELSE SynthEntryId(now),
                 date |-> LastCall'.mileageDate,
                 miles |-> 125,
                 description |-> LastCall'.mileageDescription]]_vars

\* C15: the step that handles a failed mileage submission leaves the mileage
\* ledger, the time ledger, the session, the week total, the form fields and
\* the current screen unchanged, clears the submitting flag and shows an error:
\* the error text of the JSON body, "Failed to save mileage" when the body
\* has none, or the wrapper's connect message when the call itself failed.
C15_MileageFailureKeepsState ==
    [][MileageFailed' =>
          /\ UNCHANGED <<mileageEntries, timeEntries, clockState, weekTotalHours,
                         mileageDate, mileageMiles, mileageDescription, currentScreen,
                         currentUser>>
          /\ ~isSubmittingMileage'
          /\ showError' =
                LET http == lastEvent'.srv
                IN IF ~http.transport \/ http.status < 200 \/ http.status > 299
                   THEN <<"Failed to connect. Please try again.">>
                   ELSE IF http.body.error # NONE THEN <<http.body.error>>
                   ELSE <<"Failed to save mileage">>]_vars

\* C15 witness: a submission was refused without an error text, the form
\* still filled in, on the mileage screen, with an entry in the ledger.
C15_Witness ==
    /\ MileageFailed
    /\ showError = <<"Failed to save mileage">>
    /\ mileageEntries # <<>>
    /\ mileageMiles = "12.5"
    /\ mileageDescription = "Site visit"
    /\ currentScreen = "mileage"
    /\ ~isSubmittingMileage

C18_ClearedUntilReselected ==
    currentUser = NONE =>
        /\ clockState = OUT
        /\ timeEntries = <<>>
        /\ mileageEntries = <<>>
        /\ weekTotalHours = 0

\* C19: at most one elapsed-time ticker is scheduled, one is scheduled exactly
\* when the session is IN with a clock-in time, and it ticks for that clock-in
\* time; a step that changes the session recomputes the elapsed time at once
\* when it leaves the session IN; the clock never passes a due tick, and a
\* tick recomputes the elapsed time.
C19_OneTickerIffIn ==
    /\ Cardinality(intervals) <= 1
    /\ intervals # {} <=> (clockState.isClockedIn /\ clockState.clockInTime # NULL)
    /\ \A i \in intervals : i.clockInTime = clockState.clockInTime
C19_TickerSteps ==
    /\ (clockState' # clockState /\ clockState'.isClockedIn) =>
          /\ elapsedTime' = (now' - clockState'.clockInTime) \div 60000
          /\ \A i \in intervals' : i.start = now'
    /\ now' # now => \A i \in intervals : ~(now > i.lastRun /\ (now - i.start) % 60000 = 0)
    /\ lastEvent'.op = "interval" =>
          /\ elapsedTime' = (now - clockState.clockInTime) \div 60000
          /\ UNCHANGED clockState
C19_TickerFollowsSession == []C19_OneTickerIffIn /\ [][C19_TickerSteps]_vars

\* C19 witness: the ticker of a session started by a tap has fired half an
\* hour later and shows 30 minutes.
C19_Witness ==
    /\ lastEvent.op = "interval"
    /\ clockState.isClockedIn
    /\ clockState.clockInTime # ServerClockInTime
    /\ elapsedTime = 30
    /\ Cardinality(intervals) = 1

\* C20 (as claimed): a visible success notification was shown at most 3000 ms
\* ago and a visible error notification at most 4000 ms ago.
C20_NotificationLifetime ==
    /\ showConfirmation # NoMsg => now <= shownAt.confirm + ConfirmMs
    /\ showError # NoMsg => now <= shownAt.error + ErrorMs

GoneTo == lastEvent.op = "goTo"

\* C21 (as claimed): a step that only displays another view, the history view
\* or the home screen with its current-week view, leaves the stored time
\* ledger and the stored mileage ledger as they were, in content and in order.
C21_ViewsLeaveLedgers ==
    [][GoneTo' => UNCHANGED <<timeEntries, mileageEntries>>]_vars

ReadFailed == lastEvent.srv = "failed"

\* C22: the step that handles a failed technicians fetch sets the roster to
\* [Bri, Nick]; the step that handles a failed status check leaves the
\* session {isClockedIn: false, clockInTime: null}; the step that handles a
\* failed history fetch leaves both ledgers empty and the week total 0; and
\* none of these steps sets or changes the error notification or schedules
\* a timer.
C22_FailedReadsDegrade ==
    [][/\ (lastEvent'.op = "techniciansLoaded" /\ ReadFailed') =>
            /\ technicians' = <<"Bri", "Nick">>
            /\ UNCHANGED <<showError, timers>>
       /\ (lastEvent'.op = "statusLoaded" /\ ReadFailed') =>
            /\ clockState' = [isClockedIn |-> FALSE, clockInTime |-> NULL]
            /\ UNCHANGED <<showError, timers>>
       /\ (HistoryLoaded' /\ ~lastEvent'.srv.ok) =>
            /\ timeEntries' = <<>>
            /\ mileageEntries' = <<>>
            /\ weekTotalHours' = 0
            /\ UNCHANGED <<showError, timers>>]_vars

\* C22 witness: the roster fetch had failed, Nick, whom only the fallback
\* roster offers, was selected, and his status check failed as well: the
\* session is OUT, no error is shown and no timer is pending.
C22_Witness ==
    /\ lastEvent.op = "statusLoaded" /\ ReadFailed
    /\ technicians = <<"Bri", "Nick">>
    /\ currentUser = "Nick"
    /\ clockState = OUT
    /\ showError = NoMsg
    /\ timers = {}

MileageCalls == {c \in calls : c.kind = "mileage"}

\* C23: whenever the debounce flag is set it is cleared later, and whenever
\* the submitting flag is set it is cleared later, whether the call succeeded
\* or failed, so the guard of a further action passes again; and a step adds
\* a clock or mileage call only when the technician starts one: the step that
\* handles a response, a timer or a ticker issues none.
C23_CallsOnlyByUser ==
    /\ ~(ClockCalls' \subseteq ClockCalls) => (ClockInStarted' \/ ClockOutStarted')
    /\ ~(MileageCalls' \subseteq MileageCalls) => lastEvent'.op = "mileageStart"
C24_NoOpenEntry ==
    ~\E i \in DOMAIN timeEntries :
        /\ timeEntries[i].date = formatDate(LastCall'.now)
        /\ timeEntries[i].clockOut = NULL
C25_AtMostOne == Cardinality(ClockCalls) <= 1
C25_StartsWhenIdle == (ClockInStarted' \/ ClockOutStarted') => ClockCalls = {}
C25_OneClockCallInFlight == []C25_AtMostOne /\ [][C25_StartsWhenIdle]_vars

\* C25 witness: a clock-out is in flight, started after the clock-in of the
\* same session had come back and put its entry into the ledger.
C25_Witness ==
    /\ ClockOutStarted
    /\ ClockCalls = {LastCall}
    /\ LastCall.prevClockInTime # ServerClockInTime
    /\ \E i \in DOMAIN timeEntries : timeEntries[i].clockIn = LastCall.prevClockInTime

ResponseHandled ==
    lastEvent.op \in {"statusLoaded", "historyLoaded", "clockInDone", "clockInFailed",
                      "clockOutDone", "clockOutFailed", "mileageDone", "mileageFailed"}

\* C26 (as claimed): the step that handles the response of a call issued for
\* a technician who is no longer the selected one (switchUser has run since,
\* and possibly another selectUser) leaves the session, both ledgers and the
\* week total unchanged.
C26_LateResponseIgnored ==
    [][(ResponseHandled' /\ LastCall'.user # currentUser) =>
          UNCHANGED <<clockState, timeEntries, mileageEntries, weekTotalHours>>]_vars

\* C27 (as claimed): the step that handles a successful clock-out while the
\* ledger holds the open entry of this session's clock-in (no history load
\* has replaced it) closes that entry, also when the UTC date has changed
\* since the clock-in: afterwards no entry with that clock-in time has
\* clockOut null.
C27_SessionEntryOpen ==
    /\ LastCall'.prevClockInTime # ServerClockInTime    \* the session began with a tap
    /\ \E i \in DOMAIN timeEntries :
          /\ timeEntries[i].clockIn = LastCall'.prevClockInTime
          /\ timeEntries[i].clockOut = NULL
C27_ClockOutClosesEntry ==
    [][(ClockOutDone' /\ C27_SessionEntryOpen) =>
          \A j \in DOMAIN timeEntries' :
              timeEntries'[j].clockIn = LastCall'.prevClockInTime
                  => timeEntries'[j].clockOut # NULL]_vars

\* C28 (as claimed): once a clock-in tapped during the initial load has
\* succeeded (the session is IN with the tap time and the ledger holds the
\* open entry of that clock-in), the step that handles the late status
\* response of that load leaves the session as it is, and the step that
\* handles its late history response leaves that entry in the ledger.
C28_ClockedInByTap ==
    /\ clockState.isClockedIn
    /\ clockState.clockInTime # ServerClockInTime
    /\ \E i \in DOMAIN timeEntries :
          /\ timeEntries[i].clockIn = clockState.clockInTime
          /\ timeEntries[i].clockOut = NULL
C28_LateLoadKeepsClockIn ==
    [][(/\ lastEvent'.op \in {"statusLoaded", "historyLoaded"}
        /\ LastCall'.kind = "load"
        /\ LastCall'.user = currentUser
        /\ C28_ClockedInByTap)
       => /\ clockState' = clockState
          /\ \E j \in DOMAIN timeEntries' :
                /\ timeEntries'[j].clockIn = clockState.clockInTime
                /\ timeEntries'[j].clockOut = NULL]_vars
====
